---- MODULE Spec2Model ----
(***************************************************************************)
(* Record normalisation and merge engine of the upload/combine/dashboard   *)
(* application (app/utils/merge.py, app/views.py).                         *)
(*                                                                         *)
(* Python text is a sequence of one-character strings, so that strip(),    *)
(* lower() and the two re.sub() calls are computed, not assumed.  A scalar *)
(* cell value is a tagged record (None, str, int, bool).  A dict is a      *)
(* function whose domain is the set of its keys.  Dict objects live in a   *)
(* heap (a sequence, the object id is the index) so that two references to *)
(* the same dict can be told from two equal dicts.                         *)
(***************************************************************************)
EXTENDS Integers, Sequences, FiniteSets, TLC

VARIABLES
    IN_MEMORY_STORE,  \* views.py: session id -> {"frames", "combined", "meta"}
    heap,             \* the dict objects the store's lists refer to
    rendered,         \* what the last handler rendered (dashboard context) or flashed
    history,          \* per session: the frames list as of the last successful combine
    hdr,              \* header canonicalisation harness: input and results
    mrg               \* key inference / merge harness: input tables and results

vars == <<IN_MEMORY_STORE, heap, rendered, history, hdr, mrg>>

----------------------------------------------------------------------------
(* Bounds of the model.                                                    *)

MaxFrames == 2       \* tables a session accumulates
MaxHeaderLen == 4    \* length of the free-form raw headers tried
MaxTables == 2       \* tables handed to infer_key_columns / combine_records
MaxRows == 2         \* rows, in total, in those tables

----------------------------------------------------------------------------
(* Python text.                                                            *)

LowerLetters ==
    <<"a","b","c","d","e","f","g","h","i","j","k","l","m",
      "n","o","p","q","r","s","t","u","v","w","x","y","z">>
UpperLetters ==
    <<"A","B","C","D","E","F","G","H","I","J","K","L","M",
      "N","O","P","Q","R","S","T","U","V","W","X","Y","Z">>
DigitChars == <<"0","1","2","3","4","5","6","7","8","9">>

Whitespace == {" ", "\t"}
AlnumLower == {LowerLetters[i] : i \in DOMAIN LowerLetters}
              \cup {DigitChars[i] : i \in DOMAIN DigitChars}

\* str.lower(), one character
lower_char(c) ==
    IF \E i \in DOMAIN UpperLetters : UpperLetters[i] = c
    THEN LowerLetters[CHOOSE i \in DOMAIN UpperLetters : UpperLetters[i] = c]
    ELSE c

lower(s) == [i \in DOMAIN s |-> lower_char(s[i])]

RECURSIVE lstrip(_)
lstrip(s) == IF s # <<>> /\ Head(s) \in Whitespace THEN lstrip(Tail(s)) ELSE s

RECURSIVE rstrip(_)
rstrip(s) ==
    IF s # <<>> /\ s[Len(s)] \in Whitespace
    THEN rstrip(SubSeq(s, 1, Len(s) - 1))
    ELSE s

\* str.strip()
strip(s) == rstrip(lstrip(s))

\* re.sub(r"[^a-z0-9]+", " ", s): every maximal run of characters outside
\* [a-z0-9] becomes one space.  inrun: the previous character was in a run.
RECURSIVE sub_non_alnum(_, _)
sub_non_alnum(s, inrun) ==
    IF s = <<>> THEN <<>>
    ELSE IF Head(s) \in AlnumLower
         THEN <<Head(s)>> \o sub_non_alnum(Tail(s), FALSE)
         ELSE (IF inrun THEN <<>> ELSE <<" ">>) \o sub_non_alnum(Tail(s), TRUE)

\* re.sub(r"\s+", " ", s)
RECURSIVE sub_whitespace(_, _)
sub_whitespace(s, inrun) ==
    IF s = <<>> THEN <<>>
    ELSE IF Head(s) \notin Whitespace
         THEN <<Head(s)>> \o sub_whitespace(Tail(s), FALSE)
         ELSE (IF inrun THEN <<>> ELSE <<" ">>) \o sub_whitespace(Tail(s), TRUE)

\* The words the alias registry and the field lists are spelled with.
SP == <<" ">>
US == <<"_">>
w_organisation == <<"o","r","g","a","n","i","s","a","t","i","o","n">>
w_organization == <<"o","r","g","a","n","i","z","a","t","i","o","n">>
w_org == <<"o","r","g">>
w_id == <<"i","d">>
w_company == <<"c","o","m","p","a","n","y">>
w_customer == <<"c","u","s","t","o","m","e","r">>
w_client == <<"c","l","i","e","n","t">>
w_account == <<"a","c","c","o","u","n","t">>
w_buyer == <<"b","u","y","e","r">>
w_name == <<"n","a","m","e">>
w_contact == <<"c","o","n","t","a","c","t">>
w_full == <<"f","u","l","l">>
w_contractor == <<"c","o","n","t","r","a","c","t","o","r">>
w_product == <<"p","r","o","d","u","c","t">>
w_status == <<"s","t","a","t","u","s">>
w_engagement == <<"e","n","g","a","g","e","m","e","n","t">>
w_project == <<"p","r","o","j","e","c","t">>
w_carbon == <<"c","a","r","b","o","n">>
w_factor == <<"f","a","c","t","o","r">>
w_co2 == <<"c","o","2">>
w_emissions == <<"e","m","i","s","s","i","o","n","s">>
w_next == <<"n","e","x","t">>
w_activity == <<"a","c","t","i","v","i","t","y">>
w_due == <<"d","u","e">>
w_date == <<"d","a","t","e">>
w_action == <<"a","c","t","i","o","n">>
w_has == <<"h","a","s">>
w_Unknown == <<"U","n","k","n","o","w","n">>
w_None == <<"N","o","n","e">>
w_True == <<"T","r","u","e">>
w_False == <<"F","a","l","s","e">>

\* The canonical field names.
f_organisation_id == w_organisation \o US \o w_id
f_customer == w_customer
f_name == w_name
f_product_status == w_product \o US \o w_status
f_engagement_status == w_engagement \o US \o w_status
f_carbon_factor == w_carbon \o US \o w_factor
f_next_activity_due_date == w_next \o US \o w_activity \o US \o w_due \o US \o w_date
f_has_next_activity_due == w_has \o US \o w_next \o US \o w_activity \o US \o w_due

----------------------------------------------------------------------------
(* Column canonicaliser.                                                   *)

\* A registry that lacks the spaced spelling of product_status: the slip of
\* listing only the underscore spelling, which _canonicalize never produces.
AliasesWithoutSpacedProductStatus ==
    << <<f_organisation_id,
         << w_organisation \o SP \o w_id, w_org \o SP \o w_id, w_org \o US \o w_id,
            w_organisation \o w_id, w_organization \o SP \o w_id,
            w_organization \o US \o w_id, w_company \o SP \o w_id,
            w_company \o US \o w_id >> >>,
       <<f_customer, << w_customer, w_client, w_account, w_buyer >> >>,
       <<f_name,
         << w_name, w_contact \o SP \o w_name, w_full \o SP \o w_name, w_contractor,
            w_contractor \o SP \o w_name >> >>,
       <<f_product_status,
         << w_product \o US \o w_status, w_status \o SP \o w_product >> >>,
       <<f_engagement_status,
         << w_engagement \o SP \o w_status, w_engagement \o US \o w_status,
            w_status \o SP \o w_engagement, w_project \o SP \o w_status >> >>,
       <<f_carbon_factor,
         << w_carbon \o SP \o w_factor, w_carbon \o US \o w_factor,
            w_co2 \o SP \o w_factor, w_emissions \o SP \o w_factor >> >>,
       <<f_next_activity_due_date,
         << w_next \o SP \o w_activity \o SP \o w_due \o SP \o w_date,
            w_next \o SP \o w_due, w_due \o SP \o w_date, w_next \o US \o w_activity,
            w_next \o SP \o w_action \o SP \o w_due >> >> >>

\* NORMALIZED_COLUMN_ALIASES, in the dict's insertion order:
\* <<canonical name, aliases>>.
NORMALIZED_COLUMN_ALIASES ==
    << <<f_organisation_id,
         << w_organisation \o SP \o w_id, w_org \o SP \o w_id, w_org \o US \o w_id,
            w_organisation \o w_id, w_organization \o SP \o w_id,
            w_organization \o US \o w_id, w_company \o SP \o w_id,
            w_company \o US \o w_id >> >>,
       <<f_customer, << w_customer, w_client, w_account, w_buyer >> >>,
       <<f_name,
         << w_name, w_contact \o SP \o w_name, w_full \o SP \o w_name, w_contractor,
            w_contractor \o SP \o w_name >> >>,
       <<f_product_status,
         << w_product \o SP \o w_status, w_product \o US \o w_status,
            w_status \o SP \o w_product >> >>,
       <<f_engagement_status,
         << w_engagement \o SP \o w_status, w_engagement \o US \o w_status,
            w_status \o SP \o w_engagement, w_project \o SP \o w_status >> >>,
       <<f_carbon_factor,
         << w_carbon \o SP \o w_factor, w_carbon \o US \o w_factor,
            w_co2 \o SP \o w_factor, w_emissions \o SP \o w_factor >> >>,
       <<f_next_activity_due_date,
         << w_next \o SP \o w_activity \o SP \o w_due \o SP \o w_date,
            w_next \o SP \o w_due, w_due \o SP \o w_date, w_next \o US \o w_activity,
            w_next \o SP \o w_action \o SP \o w_due >> >> >>

\* _canonicalize(name)
_canonicalize(name) ==
    LET s1 == lower(strip(name))
        s2 == sub_non_alnum(s1, FALSE)
    IN strip(sub_whitespace(s2, FALSE))

SeqRange(q) == {q[i] : i \in DOMAIN q}

\* the loop of _map_column: the first registry entry, in dict order, whose
\* canonical name or one of whose aliases equals the canonicalised text; else
\* the text
first_entry(c_norm, reg) ==
    LET hits == {i \in DOMAIN reg :
                    c_norm = reg[i][1] \/ c_norm \in SeqRange(reg[i][2])}
    IN IF hits = {} THEN c_norm
       ELSE reg[CHOOSE i \in hits : \A j \in hits : i <= j][1]

\* _map_column(name)
_map_column(name) == first_entry(_canonicalize(name), NORMALIZED_COLUMN_ALIASES)

----------------------------------------------------------------------------
(* Python values and dicts.                                                *)

None == [t |-> "none", s |-> <<>>, n |-> 0]
Str(text) == [t |-> "str", s |-> text, n |-> 0]
Num(k) == [t |-> "num", s |-> <<>>, n |-> k]
Bool(b) == [t |-> "bool", s |-> <<>>, n |-> IF b THEN 1 ELSE 0]

RECURSIVE decimal(_)
decimal(k) ==
    IF k < 10 THEN <<DigitChars[k + 1]>>
    ELSE decimal(k \div 10) \o <<DigitChars[(k % 10) + 1]>>

\* str(v)
py_str(v) ==
    CASE v.t = "str" -> v.s
      [] v.t = "num" -> decimal(v.n)
      [] v.t = "bool" -> (IF v.n = 1 THEN w_True ELSE w_False)
      [] OTHER -> w_None

\* bool(v)
truthy(v) ==
    CASE v.t = "str" -> v.s # <<>>
      [] v.t = "num" -> v.n # 0
      [] v.t = "bool" -> v.n # 0
      [] OTHER -> FALSE

\* `v is None or str(v).strip() == ""`, the test merge.py uses throughout
is_blank(v) == v = None \/ strip(py_str(v)) = <<>>

EmptyDict == << >>
dict_get(d, k) == IF k \in DOMAIN d THEN d[k] ELSE None
dict_put(d, k, v) == [x \in (DOMAIN d) \cup {k} |-> IF x = k THEN v ELSE d[x]]
dict_setdefault(d, k, v) == IF k \in DOMAIN d THEN d ELSE dict_put(d, k, v)

Min(S) == CHOOSE i \in S : \A j \in S : i <= j
Max(S) == CHOOSE i \in S : \A j \in S : i >= j

----------------------------------------------------------------------------
(* read_table.  A file is what the parser libraries see: the rows of the   *)
(* active sheet, or of the delimited text, the first one the header row.   *)
(* A raw record is an ordered dict: a sequence of <<key, value>> pairs     *)
(* with distinct keys, in insertion order.                                 *)

\* dict built by `rec[h] = v` over zip(headers, row) for the headers kept:
\* a key stands where it was first inserted and holds the last value stored.
zip_record(headers, row, n, kept) ==
    LET idx == {i \in 1..n : headers[i] \in kept}
        first == {i \in idx : \A j \in idx : headers[j] = headers[i] => i <= j}
        val(i) == row[Max({j \in idx : headers[j] = headers[i]})]
        acc[i \in 0..n] ==
            IF i = 0 THEN <<>>
            ELSE IF i \in first THEN Append(acc[i - 1], <<headers[i], val(i)>>)
                 ELSE acc[i - 1]
    IN acc[n]

pair_values(rec) == {rec[i][2] : i \in DOMAIN rec}
pair_keys(rec) == {rec[i][1] : i \in DOMAIN rec}

\* `if any(v is not None and str(v).strip() != "" for v in rec.values()):
\* records.append(rec)`
nonblank_records(recs) ==
    LET acc[i \in 0..Len(recs)] ==
            IF i = 0 THEN <<>>
            ELSE IF \E v \in pair_values(recs[i]) : ~is_blank(v)
                 THEN Append(acc[i - 1], recs[i]) ELSE acc[i - 1]
    IN acc[Len(recs)]

\* csv.DictReader passes over a row with no cell at all
nonempty_rows(rows) ==
    LET acc[i \in 0..Len(rows)] ==
            IF i = 0 THEN <<>>
            ELSE IF rows[i] # <<>> THEN Append(acc[i - 1], rows[i]) ELSE acc[i - 1]
    IN acc[Len(rows)]

\* the rows of a sheet under its header row: columns with an empty header
\* skipped, rows with no non-blank value skipped
xlsx_records(headers, body) ==
    nonblank_records([r \in DOMAIN body |->
                         zip_record(headers, body[r],
                                    IF Len(headers) <= Len(body[r])
                                    THEN Len(headers) ELSE Len(body[r]),
                                    SeqRange(headers) \ {<<>>})])

\* the .xlsx/.xls branch: header cells stringified (None -> "")
read_xlsx(sheet) ==
    IF sheet = <<>> THEN <<>>
    ELSE xlsx_records([i \in DOMAIN sheet[1] |->
                          IF sheet[1][i] = None THEN <<>> ELSE py_str(sheet[1][i])],
                      Tail(sheet))

\* the rows csv.DictReader yields under the field names: a short row is
\* padded with restval None, a row with no cell at all is skipped; nothing
\* else is filtered.  (Rows longer than the header row are not drawn.)
csv_records(headers, body) ==
    [r \in DOMAIN body |->
        zip_record(headers,
                   [i \in DOMAIN headers |->
                       IF i <= Len(body[r]) THEN body[r][i] ELSE None],
                   Len(headers), SeqRange(headers))]

\* the csv.DictReader branch: the first row gives the field names
read_csv(sheet) ==
    IF sheet = <<>> THEN <<>>
    ELSE csv_records([i \in DOMAIN sheet[1] |-> py_str(sheet[1][i])],
                     nonempty_rows(Tail(sheet)))

\* read_table(path): the branch is chosen by the file name's extension
read_table(file) ==
    IF lower(file.ext) \in {<<".","x","l","s","x">>, <<".","x","l","s">>}
    THEN read_xlsx(file.sheet)
    ELSE read_csv(file.sheet)

----------------------------------------------------------------------------
(* normalize_records.                                                      *)

\* col_map[k] = _map_column(k) for every key of every record
column_map(records) ==
    [k \in UNION {pair_keys(records[i]) : i \in DOMAIN records} |-> _map_column(k)]

\* out[col_map[k]] = v over rec.items(): a canonical name holds the value of
\* the last raw key mapped to it
normalize_record(rec, col_map) ==
    [c \in {col_map[rec[i][1]] : i \in DOMAIN rec} |->
        rec[Max({i \in DOMAIN rec : col_map[rec[i][1]] = c})][2]]

normalize_with(records, col_map) ==
    [normalized |-> [i \in DOMAIN records |-> normalize_record(records[i], col_map)],
     col_map |-> col_map]

\* returns (normalized, col_map); every input record yields an output record
normalize_records(records) == normalize_with(records, column_map(records))

----------------------------------------------------------------------------
(* infer_key_columns, _compose_key, combine_records.                       *)

NoKeys == [found |-> FALSE, keys |-> <<>>]

\* A key inference over the columns of all tables taken together: the slip of
\* building `cols` once, outside the loop over the frames.
InferOverAllTablesTogether(frames, key_options) ==
    LET cols == UNION {UNION {DOMAIN frames[f][r] : r \in DOMAIN frames[f]} :
                          f \in DOMAIN frames}
        ok(keys) == frames = <<>> \/ \A i \in DOMAIN keys : keys[i] \in cols
        hits == {o \in DOMAIN key_options : ok(key_options[o])}
    IN IF hits = {} THEN NoKeys
       ELSE [found |-> TRUE, keys |-> key_options[Min(hits)]]

\* frames: a sequence of tables, each a sequence of dicts
infer_key_columns(frames, key_options) ==
    LET cols(frame) == UNION {DOMAIN frame[r] : r \in DOMAIN frame}
        ok(keys) == \A f \in DOMAIN frames :
                        \A i \in DOMAIN keys : keys[i] \in cols(frames[f])
        hits == {o \in DOMAIN key_options : ok(key_options[o])}
    IN IF hits = {} THEN NoKeys
       ELSE [found |-> TRUE, keys |-> key_options[Min(hits)]]

\* A composite key that does not trim: the slip of `s = str(v)` for
\* `s = str(v).strip()` in the tuple that is returned.
ComposeKeyUntrimmed(rec, keys) ==
    IF \E i \in DOMAIN keys : is_blank(dict_get(rec, keys[i]))
    THEN [ok |-> FALSE, vals |-> <<>>]
    ELSE [ok |-> TRUE, vals |-> [i \in DOMAIN keys |-> py_str(rec[keys[i]])]]

\* _compose_key(rec, keys): None, or the tuple of stripped str() of the key values
_compose_key(rec, keys) ==
    IF \E i \in DOMAIN keys : is_blank(dict_get(rec, keys[i]))
    THEN [ok |-> FALSE, vals |-> <<>>]
    ELSE [ok |-> TRUE, vals |-> [i \in DOMAIN keys |-> strip(py_str(rec[keys[i]]))]]

\* the rows of the tables in processing order (tables in list order, rows in
\* order within a table); a frame is a sequence of object ids
flatten(frames) ==
    LET acc[i \in 0..Len(frames)] ==
            IF i = 0 THEN <<>> ELSE acc[i - 1] \o frames[i]
    IN acc[Len(frames)]

\* a new dict object gets the smallest id not in use
fresh(h) == Min((1..(Cardinality(DOMAIN h) + 1)) \ DOMAIN h)

cmap_find(cmap, k) == {i \in DOMAIN cmap : cmap[i].k = k}

\* A merge that adopts the first source record of a key as the merged record:
\* the slip of `combined_map.setdefault(k, rec)`.
TargetIsSourceRecord(st, k, rid) ==
    IF cmap_find(st.cmap, k) # {} THEN st
    ELSE [heap |-> st.heap, cmap |-> Append(st.cmap, [k |-> k, id |-> rid])]

\* target = combined_map.setdefault(k, {}): combined_map is an ordered dict,
\* here the sequence cmap of [k, id]; a key not yet seen gets a new empty dict
target_of(st, k, rid) ==
    IF cmap_find(st.cmap, k) # {} THEN st
    ELSE LET id == fresh(st.heap)
         IN [heap |-> dict_put(st.heap, id, EmptyDict),
             cmap |-> Append(st.cmap, [k |-> k, id |-> id])]

\* for i, key_name in enumerate(keys): target.setdefault(key_name, k[i])
ensure_key_fields(target, keys, k) ==
    LET acc[i \in 0..Len(keys)] ==
            IF i = 0 THEN target
            ELSE dict_setdefault(acc[i - 1], keys[i], Str(k[i]))
    IN acc[Len(keys)]

\* Last writer wins: the slip of dropping the test of the target's value.
TakesAnyValue(target, col, val) == ~is_blank(val)

\* Blanks are written: the slip of dropping the test of the source's value.
TakesBlankValue(target, col, val) == col \notin DOMAIN target \/ is_blank(target[col])

\* the two tests of the merge loop: the source value is not blank, and the
\* target has no value for the column
takes(target, col, val) ==
    /\ ~is_blank(val)
    /\ (col \notin DOMAIN target \/ is_blank(target[col]))

\* for col, val in rec.items(): ... target[col] = val.  The columns of a dict
\* are distinct, so the loop's result does not depend on their order.
merge_fields(target, rec) ==
    [col \in (DOMAIN target)
             \cup {c \in DOMAIN rec : takes(target, c, rec[c])} |->
        IF col \in DOMAIN rec /\ takes(target, col, rec[col])
        THEN rec[col] ELSE target[col]]

\* the loop body once the target is known: key fields, then the merge loop
merge_target(st, tid, rec, keys, k) ==
    [heap |-> [st.heap EXCEPT
                 ![tid] = merge_fields(ensure_key_fields(st.heap[tid], keys, k), rec)],
     cmap |-> st.cmap]

\* the loop body for a record rec (the object rid) with composite key k
merge_keyed(st, rid, rec, keys, k) ==
    merge_target(st, st.cmap[Min(cmap_find(st.cmap, k))].id, rec, keys, k)

\* `k = _compose_key(rec, keys); if k is None: continue`
merge_composed(st, rid, keys, k) ==
    IF ~k.ok THEN st
    ELSE merge_keyed(target_of(st, k.vals, rid), rid, st.heap[rid], keys, k.vals)

\* one pass of the inner loop of combine_records, for the record with id rid
merge_row(st, rid, keys) ==
    merge_composed(st, rid, keys, _compose_key(st.heap[rid], keys))

\* list(combined_map.values()), in the dict's insertion order
merged_records(fin) ==
    [heap |-> fin.heap, records |-> [i \in DOMAIN fin.cmap |-> fin.cmap[i].id]]

merge_rows(h, rids, keys) ==
    LET acc[i \in 0..Len(rids)] ==
            IF i = 0 THEN [heap |-> h, cmap |-> <<>>]
            ELSE merge_row(acc[i - 1], rids[i], keys)
    IN acc[Len(rids)]

\* combine_records(frames, keys): the heap after the merge and the ids of the
\* merged records
combine_records(h, frames, keys) == merged_records(merge_rows(h, flatten(frames), keys))

\* the dicts a list of ids, or of lists of ids, refers to
deref(h, ids) == [i \in DOMAIN ids |-> h[ids[i]]]
deref_frames(h, frames) == [f \in DOMAIN frames |-> deref(h, frames[f])]

----------------------------------------------------------------------------
(* views.py: the session store and the request handlers.  A handler is an  *)
(* operator from the store and the heap to the store and the heap after    *)
(* the request, with what it flashed and where it went.                    *)

Sessions == {"sid"}

NoCombined == [set |-> FALSE, records |-> <<>>]

\* IN_MEMORY_STORE.setdefault(sid, {"frames": [], "combined": None, "meta": []})
_get_store(M, sid) ==
    dict_setdefault(M, sid, [frames |-> <<>>, combined |-> NoCombined, meta |-> <<>>])

\* the object references of the store, frames first, then the merged records
reach_of(M) ==
    IF DOMAIN M = {} THEN <<>>
    ELSE flatten(M[CHOOSE sid \in DOMAIN M : TRUE].frames)
            \o M[CHOOSE sid \in DOMAIN M : TRUE].combined.records

first_refs(reach) ==
    {i \in DOMAIN reach : \A j \in 1..(i - 1) : reach[j] # reach[i]}

new_id(reach, firsts, id) ==
    Cardinality({i \in firsts : i <= Min({j \in DOMAIN reach : reach[j] = id})})

renumber(M, h, reach, firsts) ==
    [M |-> [sid \in DOMAIN M |->
              [frames |-> [f \in DOMAIN M[sid].frames |->
                             [i \in DOMAIN M[sid].frames[f] |->
                                 new_id(reach, firsts, M[sid].frames[f][i])]],
               combined |-> [set |-> M[sid].combined.set,
                             records |-> [i \in DOMAIN M[sid].combined.records |->
                                 new_id(reach, firsts, M[sid].combined.records[i])]],
               meta |-> M[sid].meta]],
     heap |-> [n \in 1..Cardinality(firsts) |->
                 h[reach[CHOOSE i \in firsts : new_id(reach, firsts, reach[i]) = n]]]]

renumber_reached(M, h, reach) == renumber(M, h, reach, first_refs(reach))

\* Objects no store refers to are collected.  An object's id carries no
\* meaning, so the ids in use are then renumbered 1..n in the order the store
\* reaches them (frames first, then the merged records); two references to
\* one object stay two references to one object.
gc(M, h) == renumber_reached(M, h, reach_of(M))

\* os.path.splitext(name)[1]: from the last dot, unless only dots precede it
splitext_ext(name) ==
    LET dots == {i \in DOMAIN name : name[i] = "."}
    IN IF dots = {} \/ \A i \in 1..(Max(dots) - 1) : name[i] = "."
       THEN <<>> ELSE SubSeq(name, Max(dots), Len(name))

\* index(): renders the uploaded files' meta and whether a merge is stored
index(M, h, sid) ==
    LET M1 == _get_store(M, sid)
    IN [M |-> M1, heap |-> h, page |-> "index", flash |-> <<>>,
        context |-> [frames_meta |-> M1[sid].meta,
                     has_combined |-> M1[sid].combined.set]]

\* the dicts of a list are stored as new objects
store_dicts(h, dicts) ==
    LET acc[i \in 0..Len(dicts)] ==
            IF i = 0 THEN [heap |-> h, ids |-> <<>>]
            ELSE LET id == fresh(acc[i - 1].heap)
                 IN [heap |-> dict_put(acc[i - 1].heap, id, dicts[i]),
                     ids |-> Append(acc[i - 1].ids, id)]
    IN acc[Len(dicts)]

\* the entry of store["meta"] for a table; "columns" is the set the sorted
\* list is built from; "stored_as" (a random name) is left out
meta_entry(name, nr) ==
    [original_name |-> name,
     columns |-> UNION {DOMAIN nr.normalized[i] : i \in DOMAIN nr.normalized},
     col_map |-> nr.col_map]

\* An upload that drops the stored merge when a table is added.
AppendFrameDropsCombined(st, sid, al, entry) ==
    [st EXCEPT !.heap = al.heap,
               !.M[sid].frames = Append(@, al.ids),
               !.M[sid].combined = NoCombined,
               !.M[sid].meta = Append(@, entry)]

\* store["frames"].append(normalized); store["meta"].append({...})
append_frame(st, sid, al, entry) ==
    [st EXCEPT !.heap = al.heap,
               !.M[sid].frames = Append(@, al.ids),
               !.M[sid].meta = Append(@, entry)]

append_table(st, sid, name, nr) ==
    append_frame(st, sid, store_dicts(st.heap, nr.normalized), meta_entry(name, nr))

\* the body of upload()'s loop for one file: no file name, a file that cannot
\* be read, or a table that is normalised and appended
upload_file(st, sid, f) ==
    IF f.filename = <<>> THEN st
    ELSE IF ~f.readable THEN [st EXCEPT !.flash = Append(@, "danger")]
    ELSE append_table(st, sid, f.filename,
                      normalize_records(read_table([ext |-> splitext_ext(f.filename),
                                                    sheet |-> f.sheet])))

upload_files(M, h, sid, files) ==
    LET acc[i \in 0..Len(files)] ==
            IF i = 0 THEN [M |-> M, heap |-> h, flash |-> <<>>]
            ELSE upload_file(acc[i - 1], sid, files[i])
    IN acc[Len(files)]

collected(g, page, flash) ==
    [M |-> g.M, heap |-> g.heap, page |-> page, flash |-> flash, context |-> <<>>]

upload_done(fin) ==
    collected(gc(fin.M, fin.heap), "redirect:index", Append(fin.flash, "success"))

\* upload()
upload(M, h, sid, files) ==
    IF files = <<>>
    THEN [M |-> M, heap |-> h, page |-> "redirect:index", flash |-> <<"warning">>,
          context |-> <<>>]
    ELSE upload_done(upload_files(_get_store(M, sid), h, sid, files))

key_options == << <<f_organisation_id>>, <<f_customer, f_name>> >>

display_fields ==
    << f_organisation_id, f_customer, f_name, f_product_status,
       f_engagement_status, f_carbon_factor, f_next_activity_due_date >>

\* for field in display_fields: rec.setdefault(field, None)
complete_fields(rec) ==
    LET acc[i \in 0..Len(display_fields)] ==
            IF i = 0 THEN rec ELSE dict_setdefault(acc[i - 1], display_fields[i], None)
    IN acc[Len(display_fields)]

\* rec["has_next_activity_due"] = bool(nad not in (None, ""))
derive_due_flag(rec) ==
    LET nad == dict_get(rec, f_next_activity_due_date)
    IN dict_put(rec, f_has_next_activity_due,
                Bool(~(nad = None \/ nad = Str(<<>>))))

\* A failed key inference that also forgets the stored merge.
CombineNoKeysForgets(M, h, sid) ==
    collected(gc([M EXCEPT ![sid].combined = NoCombined], h), "redirect:index",
              <<"danger">>)

\* combine(), `if not keys`: flash and return, nothing stored
combine_no_keys(M, h, sid) ==
    [M |-> M, heap |-> h, page |-> "redirect:index", flash |-> <<"danger">>, context |-> <<>>]

\* the loop over the merged records: complete the fields, derive the flag
finish_records(r) ==
    [id \in DOMAIN r.heap |->
        IF \E i \in DOMAIN r.records : r.records[i] = id
        THEN derive_due_flag(complete_fields(r.heap[id])) ELSE r.heap[id]]

\* store["combined"] = combined
store_combined(M, sid, r) ==
    collected(gc([M EXCEPT ![sid].combined = [set |-> TRUE, records |-> r.records]],
                 finish_records(r)),
              "redirect:dashboard", <<"success">>)

\* combine() from combine_records on: merge, complete, derive, store
combine_merge(M, h, sid, keys) ==
    store_combined(M, sid, combine_records(h, M[sid].frames, keys))

combine_with(M, h, sid, keys) ==
    IF ~keys.found \/ keys.keys = <<>>
    THEN combine_no_keys(M, h, sid)
    ELSE combine_merge(M, h, sid, keys.keys)

combine_store(M, h, sid) ==
    IF M[sid].frames = <<>>
    THEN [M |-> M, heap |-> h, page |-> "redirect:index", flash |-> <<"warning">>,
          context |-> <<>>]
    ELSE combine_with(M, h, sid,
                      infer_key_columns(deref_frames(h, M[sid].frames), key_options))

\* combine()
combine(M, h, sid) == combine_store(_get_store(M, sid), h, sid)

\* dashboard._vc(records, field): an ordered dict, here a sequence of
\* <<key, count>> in insertion order
_vc(records, field) ==
    LET key(r) == LET v == dict_get(r, field)
                  IN py_str(IF truthy(v) THEN v ELSE Str(w_Unknown))
        put(counts, k) ==
            IF \E i \in DOMAIN counts : counts[i][1] = k
            THEN [i \in DOMAIN counts |->
                    IF counts[i][1] = k THEN <<k, counts[i][2] + 1>> ELSE counts[i]]
            ELSE Append(counts, <<k, 1>>)
        acc[i \in 0..Len(records)] ==
            IF i = 0 THEN <<>> ELSE put(acc[i - 1], key(records[i]))
    IN acc[Len(records)]

\* dashboard(): the context it renders.  carbon_factor_stats (float parsing)
\* is left out of the context.
dashboard(M, h, sid) ==
    LET M1 == _get_store(M, sid)
        combined == deref(h, M1[sid].combined.records)
    IN IF combined = <<>>
       THEN [M |-> M1, heap |-> h, page |-> "redirect:index", flash |-> <<"info">>,
             context |-> <<>>]
       ELSE [M |-> M1, heap |-> h, page |-> "dashboard", flash |-> <<>>,
             context |->
               [total_contractors |-> Len(combined),
                engagement_breakdown |-> _vc(combined, f_engagement_status),
                product_breakdown |-> _vc(combined, f_product_status),
                due_soon_count |->
                    Cardinality({i \in DOMAIN combined :
                        truthy(dict_get(combined[i], f_has_next_activity_due))}),
                table |-> [i \in DOMAIN combined |->
                              [f \in SeqRange(display_fields) |->
                                  dict_get(combined[i], f)]]]]

----------------------------------------------------------------------------
(* The requests of a session.                                              *)

h_OrgID == <<"O","r","g"," ","I","D">>
h_NextDue == <<"N","e","x","t"," ","D","u","e">>
h_EngagementStatus ==
    <<"E","n","g","a","g","e","m","e","n","t"," ","S","t","a","t","u","s">>
h_Customer == <<"C","u","s","t","o","m","e","r">>
h_Name == <<"N","a","m","e">>
h_Client == <<"C","l","i","e","n","t">>
h_FullName == <<"F","u","l","l"," ","N","a","m","e">>

xlsx_name == <<"a",".","x","l","s","x">>
csv_name == <<"b",".","c","s","v">>

Sheet(headers, rows) == <<[i \in DOMAIN headers |-> Str(headers[i])]>> \o rows
File(name, sheet) == [filename |-> name, readable |-> TRUE, sheet |-> sheet]

\* The files a user uploads: workbooks and delimited text keyed by
\* organisation id, with a due date (None, empty, whitespace, filled) or an
\* engagement status (text, the number 0); files whose only row is blank;
\* files keyed by customer and name, or carrying only one of the two.
UploadFiles ==
    {File(xlsx_name, Sheet(<<h_OrgID, h_NextDue>>,
                           << <<Str(<<"1">>), Str(<<" ">>)>> >>)),
     File(xlsx_name, Sheet(<<h_OrgID, h_NextDue>>,
                           << <<Str(<<"1">>), None>>, <<Num(1), Str(<<"d">>)>> >>)),
     File(csv_name, Sheet(<<h_OrgID, h_NextDue>>,
                          << <<Str(<<" ","1">>), Str(<<>>)>> >>)),
     File(csv_name, Sheet(<<f_organisation_id, h_EngagementStatus>>,
                          << <<Str(<<" ","1">>), Str(<<"L">>)>> >>)),
     File(xlsx_name, Sheet(<<f_organisation_id, h_EngagementStatus>>,
                           << <<Str(<<"2">>), Num(0)>> >>)),
     File(xlsx_name, Sheet(<<h_OrgID, h_NextDue>>,
                           << <<Str(<<>>), Str(<<" ">>)>> >>)),
     File(csv_name, Sheet(<<h_OrgID, h_NextDue>>,
                          << <<Str(<<>>), Str(<<" ">>)>> >>)),
     File(csv_name, Sheet(<<h_Customer>>, << <<Str(<<"c">>)>> >>)),
     File(csv_name, Sheet(<<h_Name>>, << <<Str(<<"n">>)>> >>)),
     File(csv_name, Sheet(<<h_Client, h_FullName>>,
                          << <<Str(<<"c">>), Str(<<"n">>)>> >>))}

\* a form part without a file name, and a file the parser rejects
SkippedFiles ==
    {[filename |-> <<>>, readable |-> TRUE, sheet |-> <<>>],
     [filename |-> xlsx_name, readable |-> FALSE, sheet |-> <<>>]}

\* request.files.getlist("files")
UploadRequests ==
    {<<>>}
    \cup {<<f>> : f \in UploadFiles \cup SkippedFiles}
    \cup {<<sk, f>> : sk \in SkippedFiles, f \in UploadFiles \cup SkippedFiles}
    \cup {<<f, f>> : f \in UploadFiles}

frames_of(M, sid) == IF sid \in DOMAIN M THEN M[sid].frames ELSE <<>>

HdrResult(raw) ==
    [raw |-> raw, once |-> _map_column(raw), twice |-> _map_column(_map_column(raw))]

MergeKeyChoices == {<<f_customer>>, <<f_name>>, <<f_customer, f_name>>}

MergeKeyOptions ==
    {<<>>} \cup {<<a>> : a \in MergeKeyChoices}
    \cup {<<a, b>> : a \in MergeKeyChoices, b \in MergeKeyChoices}

\* tables of dicts stored as objects, one frame of ids per table
load_tables(tables) ==
    LET acc[i \in 0..Len(tables)] ==
            IF i = 0 THEN [heap |-> EmptyDict, frames |-> <<>>]
            ELSE LET al == store_dicts(acc[i - 1].heap, tables[i])
                 IN [heap |-> al.heap, frames |-> Append(acc[i - 1].frames, al.ids)]
    IN acc[Len(tables)]

MrgResult(tables) ==
    LET ld == load_tables(tables)
    IN [tables |-> tables,
        inferred |-> [ko \in MergeKeyOptions |-> infer_key_columns(tables, ko)],
        combined |-> [keys \in MergeKeyChoices |->
                        LET r == combine_records(ld.heap, ld.frames, keys)
                        IN deref(r.heap, r.records)]]

Init ==
    /\ IN_MEMORY_STORE = EmptyDict
    /\ heap = EmptyDict
    /\ rendered = [handler |-> "none", page |-> "none", flash |-> <<>>,
                   context |-> <<>>]
    /\ history = [sid \in Sessions |-> 0]
    /\ hdr = HdrResult(<<>>)
    /\ mrg = MrgResult(<<>>)

\* the store and the heap after a request, and the response
Respond(handler, r) ==
    /\ IN_MEMORY_STORE' = r.M
    /\ heap' = r.heap
    /\ rendered' = [handler |-> handler, page |-> r.page, flash |-> r.flash,
                    context |-> r.context]

Index(sid) ==
    /\ \E r \in {index(IN_MEMORY_STORE, heap, sid)} : Respond("index", r)
    /\ UNCHANGED <<history, hdr, mrg>>

\* the tables a request adds: its named, readable files
accepted(files) == Cardinality({i \in DOMAIN files :
                                  files[i].filename # <<>> /\ files[i].readable})

Upload(sid, files) ==
    /\ Len(frames_of(IN_MEMORY_STORE, sid)) + accepted(files) <= MaxFrames
    /\ \E r \in {upload(IN_MEMORY_STORE, heap, sid, files)} : Respond("upload", r)
    /\ UNCHANGED <<history, hdr, mrg>>

Combine(sid) ==
    \E r \in {combine(IN_MEMORY_STORE, heap, sid)} :
       /\ Respond("combine", r)
       /\ history' = IF r.flash = <<"success">>
                     THEN [history EXCEPT ![sid] = Len(r.M[sid].frames)]
                     ELSE history
       /\ UNCHANGED <<hdr, mrg>>

Dashboard(sid) ==
    /\ \E r \in {dashboard(IN_MEMORY_STORE, heap, sid)} : Respond("dashboard", r)
    /\ UNCHANGED <<history, hdr, mrg>>

Next ==
    \E sid \in Sessions :
        \/ Index(sid)
        \/ \E files \in UploadRequests : Upload(sid, files)
        \/ Combine(sid)
        \/ Dashboard(sid)

Spec == Init /\ [][Next]_vars

----------------------------------------------------------------------------
(* Header canonicalisation on its own: raw headers typed character by      *)
(* character, and the registry's own spellings in the forms files carry.   *)

HeaderChars == {"n", "a", "m", "e", "N", " ", "_", "-"}

upper_char(c) ==
    IF \E i \in DOMAIN LowerLetters : LowerLetters[i] = c
    THEN UpperLetters[CHOOSE i \in DOMAIN LowerLetters : LowerLetters[i] = c]
    ELSE c

swap_char(s, from, to) == [i \in DOMAIN s |-> IF s[i] = from THEN to ELSE s[i]]

RegistryTexts ==
    UNION {{NORMALIZED_COLUMN_ALIASES[i][1]} \cup SeqRange(NORMALIZED_COLUMN_ALIASES[i][2]) :
              i \in DOMAIN NORMALIZED_COLUMN_ALIASES}

RegistryHeaders ==
    UNION {{s, <<" ">> \o s \o <<" ", "\t">>, [i \in DOMAIN s |-> upper_char(s[i])],
            swap_char(s, " ", "_"), swap_char(s, "_", " "), swap_char(s, " ", "-"),
            s \o <<":">>, <<"x">> \o s} : s \in RegistryTexts}

TypeHeader(c) ==
    /\ Len(hdr.raw) < MaxHeaderLen
    /\ hdr' = HdrResult(Append(hdr.raw, c))
    /\ UNCHANGED <<IN_MEMORY_STORE, heap, rendered, history, mrg>>

PasteHeader(s) ==
    /\ hdr.raw = <<>>
    /\ hdr' = HdrResult(s)
    /\ UNCHANGED <<IN_MEMORY_STORE, heap, rendered, history, mrg>>

HeaderNext ==
    \/ \E c \in HeaderChars : TypeHeader(c)
    \/ \E s \in RegistryHeaders : PasteHeader(s)

SpecHeader == Init /\ [][HeaderNext]_vars

----------------------------------------------------------------------------
(* Key inference and merge on their own, over every small list of tables.  *)

MergeRows ==
    LET cs == {None, Str(<<" ">>), Num(1), Str(<<" ","1">>)}
        ns == {None, Str(<<" ">>), Str(<<"x">>), Str(<<"y">>)}
        row(c, n, hc, hn) ==
            [f \in (IF hc THEN {f_customer} ELSE {}) \cup (IF hn THEN {f_name} ELSE {})
                |-> IF f = f_customer THEN c ELSE n]
    IN {row(c, n, TRUE, TRUE) : c \in cs \ {None}, n \in ns \ {None}}
       \cup {row(c, None, TRUE, FALSE) : c \in cs \ {None}}
       \cup {row(None, n, FALSE, TRUE) : n \in ns \ {None}}
       \cup {row(None, None, TRUE, TRUE), EmptyDict}

total_rows(tables) == Len(flatten(tables))

AddTable ==
    /\ Len(mrg.tables) < MaxTables
    /\ mrg' = MrgResult(Append(mrg.tables, <<>>))
    /\ UNCHANGED <<IN_MEMORY_STORE, heap, rendered, history, hdr>>

AddRow(row) ==
    /\ mrg.tables # <<>>
    /\ total_rows(mrg.tables) < MaxRows
    /\ mrg' = MrgResult([mrg.tables EXCEPT ![Len(mrg.tables)] = Append(@, row)])
    /\ UNCHANGED <<IN_MEMORY_STORE, heap, rendered, history, hdr>>

MergeNext ==
    \/ AddTable
    \/ \E row \in MergeRows : AddRow(row)

SpecMerge == Init /\ [][MergeNext]_vars

----------------------------------------------------------------------------
(* What the claims speak of, stated without the merge code.                *)

\* the composite key value of a record: the trimmed str() of each key field,
\* or none when a key field is missing, null or blank
CompositeKeyValue(rec, keys) ==
    IF \E i \in DOMAIN keys :
          \/ keys[i] \notin DOMAIN rec
          \/ rec[keys[i]] = None
          \/ strip(py_str(rec[keys[i]])) = <<>>
    THEN [has |-> FALSE, vals |-> <<>>]
    ELSE [has |-> TRUE, vals |-> [i \in DOMAIN keys |-> strip(py_str(rec[keys[i]]))]]

\* the distinct elements of a sequence, in the order of their first occurrence
FirstSeen(q) ==
    LET acc[i \in 0..Len(q)] ==
            IF i = 0 THEN <<>>
            ELSE IF \E j \in 1..(i - 1) : q[j] = q[i] THEN acc[i - 1]
                 ELSE Append(acc[i - 1], q[i])
    IN acc[Len(q)]

\* the sub-sequence of the elements of q at the indices in S
Pick(q, S) ==
    LET acc[i \in 0..Len(q)] ==
            IF i = 0 THEN <<>>
            ELSE IF i \in S THEN Append(acc[i - 1], q[i]) ELSE acc[i - 1]
    IN acc[Len(q)]

column_union(table) == UNION {DOMAIN table[r] : r \in DOMAIN table}

candidate_valid(tables, cand) ==
    \A t \in DOMAIN tables : SeqRange(cand) \subseteq column_union(tables[t])

MergeFields == {f_customer, f_name}

\* the source rows in processing order
MergeSource == flatten(mrg.tables)

\* the session's tables and stored merge, as dicts
SessionFrames(sid) ==
    IF sid \in DOMAIN IN_MEMORY_STORE
    THEN deref_frames(heap, IN_MEMORY_STORE[sid].frames) ELSE <<>>
SessionCombined(sid) ==
    IF sid \in DOMAIN IN_MEMORY_STORE
    THEN deref(heap, IN_MEMORY_STORE[sid].combined.records) ELSE <<>>
HasCombined(sid) ==
    sid \in DOMAIN IN_MEMORY_STORE /\ IN_MEMORY_STORE[sid].combined.set

\* C1: for every list of tables and every join key, each non-key field of the
\* merged record of composite key K holds the value of that field in the
\* earliest source row of key K whose value for it is not null or blank, and
\* the field is not set when there is no such row.
C1_FirstNonBlankWins ==
    \A keys \in MergeKeyChoices :
        \A j \in DOMAIN mrg.combined[keys] :
            LET m == mrg.combined[keys][j]
                K == CompositeKeyValue(m, keys)
            IN /\ K.has
               /\ \A f \in MergeFields \ SeqRange(keys) :
                    LET donors == {i \in DOMAIN MergeSource :
                                     /\ CompositeKeyValue(MergeSource[i], keys) = K
                                     /\ f \in DOMAIN MergeSource[i]
                                     /\ ~is_blank(MergeSource[i][f])}
                    IN IF donors = {} THEN f \notin DOMAIN m
                       ELSE m[f] = MergeSource[Min(donors)][f]

\* two rows of one customer carry different names, and the merged record has
\* the first one's
C1_Witness ==
    /\ Len(MergeSource) = 2
    /\ CompositeKeyValue(MergeSource[1], <<f_customer>>).has
    /\ CompositeKeyValue(MergeSource[1], <<f_customer>>)
          = CompositeKeyValue(MergeSource[2], <<f_customer>>)
    /\ dict_get(MergeSource[1], f_name) = Str(<<"x">>)
    /\ dict_get(MergeSource[2], f_name) = Str(<<"y">>)
    /\ Len(mrg.combined[<<f_customer>>]) = 1
    /\ mrg.combined[<<f_customer>>][1][f_name] = Str(<<"x">>)

\* C2: infer_key_columns returns the first candidate, in the caller's order,
\* all of whose fields occur in the column union of every table, and fails
\* exactly when there is no such candidate.
C2_FirstValidCandidate ==
    \A ko \in MergeKeyOptions :
        LET res == mrg.inferred[ko]
            valid == {o \in DOMAIN ko : candidate_valid(mrg.tables, ko[o])}
        IN IF valid = {} THEN ~res.found
           ELSE res.found /\ res.keys = ko[Min(valid)]

\* one table has only customer, another only name: every column of the
\* candidate [customer, name] occurs somewhere, and the candidate is refused
C2_Witness ==
    /\ Len(mrg.tables) = 2
    /\ column_union(mrg.tables[1]) = {f_customer}
    /\ column_union(mrg.tables[2]) = {f_name}
    /\ ~mrg.inferred[<< <<f_customer, f_name>> >>].found
    /\ ~mrg.inferred[<< <<f_customer>>, <<f_name>> >>].found

\* C3: no record of a normalised table has only null or blank values.
C3_NoBlankRecord ==
    \A sid \in Sessions :
        \A f \in DOMAIN SessionFrames(sid) :
            \A r \in DOMAIN SessionFrames(sid)[f] :
                \E c \in DOMAIN SessionFrames(sid)[f][r] :
                    ~is_blank(SessionFrames(sid)[f][r][c])

\* C4: combine_records returns one merged record per distinct composite key
\* value among the source rows, in the order the keys are first seen, with the
\* key fields set to the key's values; every other value of a merged record is
\* that of a keyed source row of the same key.
C4_OneRecordPerKey ==
    \A keys \in MergeKeyChoices :
        LET out == mrg.combined[keys]
            keyed == {i \in DOMAIN MergeSource :
                        CompositeKeyValue(MergeSource[i], keys).has}
            seen == [i \in DOMAIN MergeSource |->
                        CompositeKeyValue(MergeSource[i], keys).vals]
        IN /\ [j \in DOMAIN out |-> CompositeKeyValue(out[j], keys).vals]
                = FirstSeen(Pick(seen, keyed))
           /\ \A j \in DOMAIN out :
                LET K == CompositeKeyValue(out[j], keys)
                IN /\ K.has
                   /\ \A i \in DOMAIN keys : out[j][keys[i]] = Str(K.vals[i])
                   /\ \A f \in (DOMAIN out[j]) \ SeqRange(keys) :
                        \E i \in keyed :
                            /\ seen[i] = K.vals
                            /\ f \in DOMAIN MergeSource[i]
                            /\ MergeSource[i][f] = out[j][f]

\* a row without customer that has a name, then a row of customer 1 without a
\* name: one merged record, and it has no name
C4_Witness ==
    /\ Len(MergeSource) = 2
    /\ ~CompositeKeyValue(MergeSource[1], <<f_customer>>).has
    /\ ~is_blank(dict_get(MergeSource[1], f_name))
    /\ CompositeKeyValue(MergeSource[2], <<f_customer>>).has
    /\ Len(mrg.combined[<<f_customer>>]) = 1
    /\ f_name \notin DOMAIN mrg.combined[<<f_customer>>][1]

\* C5: every record of the stored merged dataset has has_next_activity_due
\* true exactly when its next_activity_due_date is present, not null and not
\* blank after trimming.
C5_DueFlag ==
    \A sid \in Sessions :
        \A j \in DOMAIN SessionCombined(sid) :
            LET m == SessionCombined(sid)[j]
            IN /\ f_has_next_activity_due \in DOMAIN m
               /\ m[f_has_next_activity_due] \in {Bool(TRUE), Bool(FALSE)}
               /\ (m[f_has_next_activity_due] = Bool(TRUE))
                    <=> ~is_blank(dict_get(m, f_next_activity_due_date))

\* a keyed row whose due date is whitespace only was merged, and the merged
\* record's flag is false
C5_Witness ==
    \E sid \in Sessions :
        /\ HasCombined(sid)
        /\ Len(SessionCombined(sid)) = 1
        /\ SessionCombined(sid)[1][f_has_next_activity_due] = Bool(FALSE)
        /\ \E f \in DOMAIN SessionFrames(sid) :
             \E r \in DOMAIN SessionFrames(sid)[f] :
                /\ CompositeKeyValue(SessionFrames(sid)[f][r], <<f_organisation_id>>).has
                /\ dict_get(SessionFrames(sid)[f][r], f_next_activity_due_date)
                      = Str(<<" ">>)

\* C6: a combine request that finds no join key leaves the session's frames,
\* meta and stored merged dataset, and the objects they refer to, as they were.
C6_NoKeyNoChange ==
    [][(rendered'.handler = "combine" /\ rendered'.flash = <<"danger">>)
          => (IN_MEMORY_STORE' = IN_MEMORY_STORE /\ heap' = heap)]_vars

\* a combine request failed for want of a key while a merge was stored
C6_Witness ==
    /\ rendered.handler = "combine"
    /\ rendered.flash = <<"danger">>
    /\ \E sid \in Sessions : HasCombined(sid) /\ SessionCombined(sid) # <<>>

\* the value-count breakdown the claim describes: "Unknown" for a null,
\* missing or blank value, else the str() of the value; keys as first seen
BreakdownLabels(records, field) ==
    [i \in DOMAIN records |->
        IF is_blank(dict_get(records[i], field)) THEN w_Unknown
        ELSE py_str(records[i][field])]
Breakdown(records, field) ==
    LET labels == BreakdownLabels(records, field)
        keys == FirstSeen(labels)
    IN [k \in DOMAIN keys |->
          <<keys[k], Cardinality({i \in DOMAIN labels : labels[i] = keys[k]})>>]

\* C7: the engagement and product breakdowns the dashboard renders count a
\* record under "Unknown" exactly when its value is null, missing or blank and
\* under the str() of the value otherwise.
C7_ValueCounts ==
    (rendered.handler = "dashboard" /\ rendered.page = "dashboard") =>
        \E sid \in Sessions :
            /\ rendered.context.engagement_breakdown
                  = Breakdown(SessionCombined(sid), f_engagement_status)
            /\ rendered.context.product_breakdown
                  = Breakdown(SessionCombined(sid), f_product_status)

NoMergedIsSource ==
    \A sid \in DOMAIN IN_MEMORY_STORE :
        SeqRange(IN_MEMORY_STORE[sid].combined.records)
            \cap SeqRange(flatten(IN_MEMORY_STORE[sid].frames)) = {}

\* C8: a combine request leaves every normalised record of the session's
\* frames as it was, tables and rows in the same order, and no merged record is
\* the same object as a source record.
C8_CombineKeepsFrames ==
    [][rendered'.handler = "combine"
          => /\ \A sid \in Sessions : SessionFrames(sid)' = SessionFrames(sid)
             /\ NoMergedIsSource']_vars

\* a combine request stored a merge of at least one record
C8_Witness ==
    /\ rendered.handler = "combine"
    /\ rendered.flash = <<"success">>
    /\ \E sid \in Sessions : HasCombined(sid) /\ SessionCombined(sid) # <<>>

\* merge, field completion and due flag applied to a list of tables
PipelineFinish(r) ==
    [i \in DOMAIN r.records |-> derive_due_flag(complete_fields(r.heap[r.records[i]]))]
PipelineMerge(ld, inferred) ==
    PipelineFinish(combine_records(ld.heap, ld.frames, inferred.keys))
Pipeline(tables) ==
    PipelineMerge(load_tables(tables), infer_key_columns(tables, key_options))

StoredIsPipelineOfPrefix ==
    \A sid \in Sessions :
        HasCombined(sid) =>
            /\ history[sid] <= Len(SessionFrames(sid))
            /\ SessionCombined(sid)
                  = Pipeline(SubSeq(SessionFrames(sid), 1, history[sid]))

\* C10: a request only appends to the session's frames, an upload leaves the
\* stored merged dataset as it was, and the stored merged dataset is the
\* pipeline's result on the frames there were at the last successful combine.
C10_AppendOnlyAndStale ==
    /\ [][\A sid \in Sessions :
            /\ Len(SessionFrames(sid)) <= Len(SessionFrames(sid)')
            /\ SubSeq(SessionFrames(sid)', 1, Len(SessionFrames(sid)))
                  = SessionFrames(sid)
            /\ rendered'.handler = "upload"
                  => /\ HasCombined(sid)' = HasCombined(sid)
                     /\ SessionCombined(sid)' = SessionCombined(sid)]_vars
    /\ []StoredIsPipelineOfPrefix

\* a table was uploaded after a merge of at least one record was stored
C10_Witness ==
    /\ rendered.handler = "upload"
    /\ \E sid \in Sessions :
          /\ HasCombined(sid)
          /\ SessionCombined(sid) # <<>>
          /\ 0 < history[sid]
          /\ history[sid] < Len(SessionFrames(sid))

\* C9: mapping a header a second time returns what the first mapping returned.
C9_Idempotent == hdr.twice = hdr.once

\* a header in a file's spelling was mapped to a registry name with underscores
C9_Witness ==
    /\ hdr.raw # hdr.once
    /\ hdr.once = f_organisation_id
    /\ hdr.twice = f_organisation_id

====
